---- MODULE Spec2Model ----
(***************************************************************************)
(* Model of PyContacTracing.py: the agent state machine (class human) and  *)
(* the day-stepped population engine (class experiment).                   *)
(*                                                                         *)
(* Probabilities are integer percents (0.2 is 20).  A comparison of        *)
(* random.random(), which is uniform on [0,1), with a probability is the   *)
(* set of results it can have.  riskcounter is kept exactly, in units of   *)
(* 1/Ti: Pi = R0/Ti is R0 units and the threshold 1 is Ti units.  For the  *)
(* values used here (R0 = 2 with Ti = 3, and R0 = 0) the program's float   *)
(* accumulation crosses 1 at exactly the same steps.                       *)
(***************************************************************************)
EXTENDS Integers, Sequences, FiniteSets, TLC

\* ---- bounds of the model ------------------------------------------------
POP == 3
DAYS == 9

\* ---- module constants of the program ------------------------------------
EFFICIENCY_REDUCTION == 10
DO_INFECT == 1
DO_ALARM == 2

healthy == "healthy"
incub == "incub"
illquarant == "illquarant"
recovered == "recovered"
dead == "dead"
status == {healthy, incub, illquarant, recovered, dead}

Ids == 0 .. (POP - 1)
DayIds == 0 .. (DAYS - 1)

VARIABLES
    hp,             \* humanParams of the run
    DEFER_SWAB_DAYS,\* module constant, fixed per run
    DAY0_INFECTED,  \* module constant, fixed per run
    listpop,        \* experiment.listpop: id -> human
    day, i,         \* loop indices of run()
    pc,             \* position of run(): "agent", "endday", "return", "done";
                    \* "human" when one human is driven directly (AgentSpec)
    lastcall,       \* the operation the last transition performed
    retval,         \* run(): value returned by the last step()
    OK,             \* run(): OK when this iteration's infection loop was left
    infectctr,      \* run(): infect() calls of this iteration (deadlockctr, line 221)
    meetctr,        \* run(): contact draws of this iteration (deadlockctr, line 230)
    skipContagi,
    ninfec, ndead, nrecovered, nhealthy, ntotal,
    nincubend,      \* history: number of incubend() calls per agent
    ninfect         \* history: number of step() calls per agent that returned INFECT

vars == << hp, DEFER_SWAB_DAYS, DAY0_INFECTED, listpop, day, i, pc, lastcall, retval, OK,
           infectctr, meetctr, skipContagi, ninfec, ndead, nrecovered,
           nhealthy, ntotal, nincubend, ninfect >>

\* ---- random draws --------------------------------------------------------
\* A draw the code does not make (its guard fails first) is written TRUE
\* where the action needs a value for it; the value is never read.
\* random.random() < p
\* (variant: <= in place of <)
RandomLessMut(p) == {b \in BOOLEAN : (b => p >= 0) /\ (~b => p < 100)}
RandomLess(p) == {b \in BOOLEAN : (b => p > 0) /\ (~b => p < 100)}
\* random.random() > p
RandomGreater(p) == {b \in BOOLEAN : (b => p < 100) /\ (~b => p >= 0)}

\* ---- class humanParams ---------------------------------------------------
humanParams(R0, Ti, Tr, Td, Pd, meeting, amtHasApp, swab) ==
    [R0 |-> R0, Ti |-> Ti, Tr |-> Tr, Td |-> Td, Tq |-> Ti + 3, Pd |-> Pd,
     meeting |-> meeting, amtHasApp |-> amtHasApp,
     swabAvailabilityProbability |-> swab]

\* ---- class human ---------------------------------------------------------
human(id, app) ==
    [st |-> healthy, id |-> id, icounter |-> 0, riskcounter |-> 0,
     willdie |-> FALSE, safequarantinectr |-> 0, hasApp |-> app,
     meetingList |-> << >>, defer_alarm |-> 0]

\* (variant: no test of the status)
infectMut(h) ==
    [h |-> [h EXCEPT !.st = incub, !.icounter = hp.Ti], ret |-> 1]
infect(h) ==
    IF h.st = healthy
    THEN [h |-> [h EXCEPT !.st = incub, !.icounter = hp.Ti], ret |-> 1]
    ELSE [h |-> h, ret |-> 0]

\* (variant: the alarm is always deferred)
incubendMut(h, die, swabok) ==
    LET h1 == [h EXCEPT !.willdie = die,
                        !.icounter = IF die THEN hp.Td ELSE hp.Tr,
                        !.st = illquarant]
    IN  IF h1.hasApp /\ swabok
        THEN [h |-> [h1 EXCEPT !.defer_alarm = DEFER_SWAB_DAYS], ret |-> 0]
        ELSE [h |-> h1, ret |-> 0]
incubend(h, die, swabok) ==
    LET h1 == [h EXCEPT !.willdie = die,
                        !.icounter = IF die THEN hp.Td ELSE hp.Tr,
                        !.st = illquarant]
    IN  IF h1.hasApp /\ swabok
        THEN IF DEFER_SWAB_DAYS # 0
             THEN [h |-> [h1 EXCEPT !.defer_alarm = DEFER_SWAB_DAYS], ret |-> 0]
             ELSE [h |-> h1, ret |-> DO_ALARM]
        ELSE [h |-> h1, ret |-> 0]

\* (variant: no test of hasApp)
appAlarmMut(h, comply) ==
    IF comply THEN [h EXCEPT !.safequarantinectr = hp.Tq] ELSE h
appAlarm(h, comply) ==
    IF h.hasApp /\ comply THEN [h EXCEPT !.safequarantinectr = hp.Tq] ELSE h

\* (variant: a Dead or Recovered agent keeps its status)
quarantineEndKeep(h) ==
    IF h.st \in {dead, recovered} THEN h ELSE [h EXCEPT !.st = healthy]
quarantineEnd(h) == [h EXCEPT !.st = healthy]

isMeetable(h) == h.st = healthy /\ h.safequarantinectr = 0

addMet(h, guyID) == [h EXCEPT !.meetingList = Append(@, guyID)]

isDead(h) == IF h.st = dead THEN 1 ELSE 0
\* (variant: incubating agents are not counted)
isInfectedMut(h) == IF h.st = illquarant THEN 1 ELSE 0
isInfected(h) == IF h.st = illquarant \/ h.st = incub THEN 1 ELSE 0
isRecovered(h) == IF h.st = recovered THEN 1 ELSE 0
isHealthy(h) == IF h.st = healthy THEN 1 ELSE 0

HasFlag(r, flag) == (r \div flag) % 2 = 1

\* step(): the quarantine countdown, then the incubation branch, then the
\* illness branch; each branch tests the status the previous one left.
stepQuarantine(h) ==
    IF h.safequarantinectr > 0
    THEN LET h1 == [h EXCEPT !.safequarantinectr = @ - 1]
         IN  IF h1.safequarantinectr = 0 THEN quarantineEnd(h1) ELSE h1
    ELSE h

\* (variant: the quarantine counter is not read)
stepIncubAlways(h, die, swabok) ==
    IF h.st = incub
    THEN LET r1 == h.riskcounter + hp.R0
             fire == r1 > hp.Ti
             h1 == [h EXCEPT !.riskcounter = IF fire THEN r1 - hp.Ti ELSE r1,
                             !.icounter = @ - 1]
             rv == IF fire THEN DO_INFECT ELSE 0
         IN  IF h1.icounter = 0
             THEN LET e == incubend(h1, die, swabok)
                  IN  [h |-> e.h, ret |-> rv + e.ret, ended |-> TRUE]
             ELSE [h |-> h1, ret |-> rv, ended |-> FALSE]
    ELSE [h |-> h, ret |-> 0, ended |-> FALSE]
stepIncub(h, die, swabok) ==
    IF h.st = incub
    THEN LET contagious == h.safequarantinectr < 1
             r1 == IF contagious THEN h.riskcounter + hp.R0 ELSE h.riskcounter
             fire == contagious /\ r1 > hp.Ti
             h1 == [h EXCEPT !.riskcounter = IF fire THEN r1 - hp.Ti ELSE r1,
                             !.icounter = @ - 1]
             rv == IF fire THEN DO_INFECT ELSE 0
         IN  IF h1.icounter = 0
             THEN LET e == incubend(h1, die, swabok)
                  IN  [h |-> e.h, ret |-> rv + e.ret, ended |-> TRUE]
             ELSE [h |-> h1, ret |-> rv, ended |-> FALSE]
    ELSE [h |-> h, ret |-> 0, ended |-> FALSE]

stepIll(h, rv) ==
    IF h.st = illquarant
    THEN LET h1 == [h EXCEPT !.icounter = @ - 1, !.defer_alarm = @ - 1]
             rv1 == IF h1.defer_alarm = 0 THEN DO_ALARM ELSE rv
         IN  IF h1.icounter = 0
             THEN [h |-> [h1 EXCEPT !.st = IF h1.willdie THEN dead ELSE recovered],
                   ret |-> rv1]
             ELSE [h |-> h1, ret |-> rv1]
    ELSE [h |-> h, ret |-> rv]

step(h, die, swabok) ==
    LET a == stepQuarantine(h)
        b == stepIncub(a, die, swabok)
        c == stepIll(b.h, b.ret)
    IN  [h |-> c.h, ret |-> c.ret, ended |-> b.ended]

\* TRUE when this step() of h reaches incubend() (and so draws willdie)
reachesIncubend(h) ==
    LET a == stepQuarantine(h) IN a.st = incub /\ a.icounter = 1

\* ---- class experiment ----------------------------------------------------
\* run(), lines 216-221: the infection loop, with the ids drawn in order
RECURSIVE infectLoop(_, _, _, _)
infectLoop(lp, draws, ok, ctr) ==
    IF ok = 0 /\ ctr < POP /\ skipContagi = 0
    THEN LET randomguy == draws[ctr + 1]
             r == infect(lp[randomguy])
         IN  infectLoop([lp EXCEPT ![randomguy] = r.h], draws, r.ret, ctr + 1)
    ELSE [lp |-> lp, OK |-> ok, ctr |-> ctr]

\* run(), lines 223-230: the contact loop; deadlockctr < 0.5*int(POP)
RECURSIVE meetLoop(_, _, _, _, _)
meetLoop(lp, who, draws, tomeet, ctr) ==
    IF tomeet > 0 /\ 2 * ctr < POP /\ skipContagi = 0
    THEN LET randomguy == draws[ctr + 1]
         IN  IF isMeetable(lp[randomguy])
             THEN meetLoop([lp EXCEPT ![who] = addMet(@, lp[randomguy].id)],
                           who, draws, tomeet - 1, ctr + 1)
             ELSE meetLoop(lp, who, draws, tomeet, ctr + 1)
    ELSE [lp |-> lp, ctr |-> ctr]

\* run(), lines 232-233: the alarm loop over meetingList
RECURSIVE alarmLoop(_, _, _, _)
alarmLoop(lp, who, comply, k) ==
    IF k <= Len(lp[who].meetingList)
    THEN LET j == lp[who].meetingList[k]
         IN  alarmLoop([lp EXCEPT ![j] = appAlarm(@, comply[k])], who, comply, k + 1)
    ELSE lp

MeetDraws == (POP + 1) \div 2

\* The random ids a loop can consume: a position the loop never reaches is
\* never drawn, and is written 0.
InfectDraws(lp) ==
    {d \in [1 .. POP -> Ids] :
        \A k \in 1 .. POP : k > infectLoop(lp, d, 0, 0).ctr => d[k] = 0}

ContactDraws(lp, who) ==
    {d \in [1 .. MeetDraws -> Ids] :
        \A k \in 1 .. MeetDraws :
            k > meetLoop(lp, who, d, hp.meeting, 0).ctr => d[k] = 0}

\* appAlarm() draws only for a contact that has the app; the entry of a
\* contact without it is never read, and is written TRUE.
ComplyDraws(lp, who, n) ==
    {c \in [1 .. n -> BOOLEAN] :
        \A k \in 1 .. n :
            IF lp[lp[who].meetingList[k]].hasApp
            THEN c[k] \in RandomGreater(EFFICIENCY_REDUCTION)
            ELSE c[k] = TRUE}

\* experiment.__init__
\* (variant: one seed too many)
experimentMut(app) ==
    LET lp0 == [id \in Ids |-> human(id, app[id])]
    IN  [id \in Ids |->
            IF id <= DAY0_INFECTED THEN infect(lp0[id]).h ELSE lp0[id]]
experiment(app) ==
    LET lp0 == [id \in Ids |-> human(id, app[id])]
    IN  [id \in Ids |->
            IF id < DAY0_INFECTED THEN infect(lp0[id]).h ELSE lp0[id]]

\* A run's configuration: the humanParams and the two module constants that
\* the scenarios vary.  Ti = 3 with R0 = 2 is the least incubation that
\* transmits with Pi < 1; Ti = 7 is the program's own incubation time.
Scenario(h, defer, seed) == [hp |-> h, defer |-> defer, seed |-> seed]

Transmitting ==
    { Scenario(humanParams(2, 3, 3, pa[3], pa[1], 1, pa[2], 100), pa[4], 1) :
        pa \in { <<0, 100, 2, 0>>, <<0, 100, 2, 2>>, <<100, 100, 2, 0>>,
                 <<100, 100, 5, 0>>, <<20, 0, 2, 0>> } }

NoTransmission ==
    { Scenario(humanParams(0, 3, 3, 2, pd, 1, amt, 100), 0, 1) :
        pd \in {0, 20, 100}, amt \in {0, 70, 100} }
    \cup
    { Scenario(humanParams(0, 7, 3, 2, pd, 0, 100, 100), 0, 1) : pd \in {0, 100} }

Scenarios == Transmitting \cup NoTransmission

\* What is common to the start of run() and of a directly driven human
Start ==
    /\ day = 0
    /\ i = 0
    /\ retval = 0
    /\ OK = 0
    /\ infectctr = 0
    /\ meetctr = 0
    /\ skipContagi = 0
    /\ ninfec = [d \in DayIds |-> 0]
    /\ ndead = [d \in DayIds |-> 0]
    /\ nrecovered = [d \in DayIds |-> 0]
    /\ nhealthy = [d \in DayIds |-> 0]
    /\ ntotal = [d \in DayIds |-> 0]
    /\ nincubend = [id \in Ids |-> 0]
    /\ ninfect = [id \in Ids |-> 0]

\* The state when run() is entered: experiment.__init__ has built listpop
Init ==
    /\ \E sc \in Scenarios :
          /\ hp = sc.hp
          /\ DEFER_SWAB_DAYS = sc.defer
          /\ DAY0_INFECTED = sc.seed
    /\ \E app \in [Ids -> BOOLEAN] :
          /\ \A id \in Ids : app[id] \in RandomLess(hp.amtHasApp)
          /\ listpop = experiment(app)
    /\ pc = "agent"
    /\ lastcall = "run"
    /\ Start

\* run(), lines 213-238: one iteration of the inner loop, for agent i
RunAgent ==
    /\ pc = "agent"
    /\ LET h0 == listpop[i]
           ends == reachesIncubend(h0)
       IN
       \E die \in (IF ends THEN RandomLess(hp.Pd) ELSE {FALSE}) :
       \E swabok \in (IF ends /\ h0.hasApp
                      THEN RandomLess(hp.swabAvailabilityProbability)
                      ELSE {TRUE}) :
         LET s == step(h0, die, swabok)
             lp1 == [listpop EXCEPT ![i] = s.h]
             doInf == HasFlag(s.ret, DO_INFECT) /\ skipContagi = 0
         IN
         \E idraws \in (IF doInf THEN InfectDraws(lp1) ELSE {<< >>}) :
           LET il == IF HasFlag(s.ret, DO_INFECT)
                     THEN infectLoop(lp1, idraws, 0, 0)
                     ELSE [lp |-> lp1, OK |-> 0, ctr |-> 0]
               doMeet == il.lp[i].st = incub /\ skipContagi = 0 /\ hp.meeting > 0
           IN
           \E mdraws \in (IF doMeet THEN ContactDraws(il.lp, i) ELSE {<< >>}) :
             LET ml == IF il.lp[i].st = incub
                       THEN meetLoop(il.lp, i, mdraws, hp.meeting, 0)
                       ELSE [lp |-> il.lp, ctr |-> 0]
                 doAlarm == HasFlag(s.ret, DO_ALARM)
                 n == IF doAlarm THEN Len(ml.lp[i].meetingList) ELSE 0
             IN
             \E comply \in ComplyDraws(ml.lp, i, n) :
               LET lp3 == IF doAlarm THEN alarmLoop(ml.lp, i, comply, 1) ELSE ml.lp
               IN
               /\ listpop' = lp3
               /\ retval' = s.ret
               /\ OK' = il.OK
               /\ infectctr' = il.ctr
               /\ meetctr' = ml.ctr
               /\ nincubend' = [nincubend EXCEPT ![i] = IF s.ended THEN @ + 1 ELSE @]
               /\ ninfect' = [ninfect EXCEPT ![i] =
                                 IF HasFlag(s.ret, DO_INFECT) THEN @ + 1 ELSE @]
               /\ ninfec' = [ninfec EXCEPT ![day] = @ + isInfected(lp3[i])]
               /\ ndead' = [ndead EXCEPT ![day] = @ + isDead(lp3[i])]
               /\ nrecovered' = [nrecovered EXCEPT ![day] = @ + isRecovered(lp3[i])]
               /\ nhealthy' = [nhealthy EXCEPT ![day] = @ + isHealthy(lp3[i])]
    /\ IF i + 1 < POP
       THEN i' = i + 1 /\ pc' = "agent"
       ELSE i' = i /\ pc' = "endday"
    /\ UNCHANGED << hp, DEFER_SWAB_DAYS, DAY0_INFECTED, day, lastcall, skipContagi,
                    ntotal >>

\* run(), lines 240-244: the end of a day
\* (variant: the horizon is one day short)
EndDayShort ==
    /\ pc = "endday"
    /\ ntotal' = [ntotal EXCEPT ![day] =
                    ninfec[day] + ndead[day] + nrecovered[day] + nhealthy[day]]
    /\ skipContagi' = IF 10 * nhealthy[day] < 3 * POP THEN 1 ELSE skipContagi
    /\ IF day + 2 < DAYS
       THEN day' = day + 1 /\ i' = 0 /\ pc' = "agent"
       ELSE day' = day /\ i' = i /\ pc' = "return"
    /\ UNCHANGED << hp, DEFER_SWAB_DAYS, DAY0_INFECTED, listpop, lastcall, retval, OK,
                    infectctr, meetctr, ninfec, ndead, nrecovered, nhealthy,
                    nincubend, ninfect >>
\* (variant: the guard is recomputed every day)
EndDayMut ==
    /\ pc = "endday"
    /\ ntotal' = [ntotal EXCEPT ![day] =
                    ninfec[day] + ndead[day] + nrecovered[day] + nhealthy[day]]
    /\ skipContagi' = IF 10 * nhealthy[day] < 3 * POP THEN 1 ELSE 0
    /\ IF day + 1 < DAYS
       THEN day' = day + 1 /\ i' = 0 /\ pc' = "agent"
       ELSE day' = day /\ i' = i /\ pc' = "return"
    /\ UNCHANGED << hp, DEFER_SWAB_DAYS, DAY0_INFECTED, listpop, lastcall, retval, OK,
                    infectctr, meetctr, ninfec, ndead, nrecovered, nhealthy,
                    nincubend, ninfect >>
EndDay ==
    /\ pc = "endday"
    /\ ntotal' = [ntotal EXCEPT ![day] =
                    ninfec[day] + ndead[day] + nrecovered[day] + nhealthy[day]]
    /\ skipContagi' = IF 10 * nhealthy[day] < 3 * POP THEN 1 ELSE skipContagi
    /\ IF day + 1 < DAYS
       THEN day' = day + 1 /\ i' = 0 /\ pc' = "agent"
       ELSE day' = day /\ i' = i /\ pc' = "return"
    /\ UNCHANGED << hp, DEFER_SWAB_DAYS, DAY0_INFECTED, listpop, lastcall, retval, OK,
                    infectctr, meetctr, ninfec, ndead, nrecovered, nhealthy,
                    nincubend, ninfect >>

\* run(), line 245
Return ==
    /\ pc = "return"
    /\ pc' = "done"
    /\ UNCHANGED << hp, DEFER_SWAB_DAYS, DAY0_INFECTED, listpop, day, i, lastcall, retval,
                    OK, infectctr, meetctr, skipContagi, ninfec, ndead,
                    nrecovered, nhealthy, ntotal, nincubend, ninfect >>

Next == RunAgent \/ EndDay \/ Return

Spec == Init /\ [][Next]_vars

\* ---- runs with two meetings per day ---------------------------------------
\* humanParams.meeting is 30 in the program; 2 is the least value with which
\* an agent records more than one contact in a day.
TwoMeetings ==
    { Scenario(humanParams(2, 3, 3, 2, 0, 2, amt, 100), 0, 1) : amt \in {0, 100} }

MeetInit ==
    /\ \E sc \in TwoMeetings :
          /\ hp = sc.hp
          /\ DEFER_SWAB_DAYS = sc.defer
          /\ DAY0_INFECTED = sc.seed
    /\ \E app \in [Ids -> BOOLEAN] :
          /\ \A id \in Ids : app[id] \in RandomLess(hp.amtHasApp)
          /\ listpop = experiment(app)
    /\ pc = "agent"
    /\ lastcall = "run"
    /\ Start

MeetSpec == MeetInit /\ [][Next]_vars

\* ---- one human driven directly -------------------------------------------
\* Between two of its own step() calls the engine may call infect() and
\* appAlarm() on an agent any number of times, while it processes the others.
\* AgentSpec is human 0 under every such sequence of calls; day counts its
\* step() calls.
\* Configurations used only where one human is driven directly: the alarm
\* deferred by one day (with Ti = 2, so that a second incubation ends within
\* DAYS steps), and the program's own R0 = 3 and Ti = 7.
AgentOnly ==
    { Scenario(humanParams(1, 2, 3, 2, 0, 1, 100, 100), 1, 1),
      Scenario(humanParams(3, 7, 3, 2, 0, 1, 100, 100), 0, 1) }

AgentInit ==
    /\ \E sc \in Transmitting \cup AgentOnly :
          /\ hp = sc.hp
          /\ DEFER_SWAB_DAYS = sc.defer
          /\ DAY0_INFECTED = 0
    /\ \E app \in [Ids -> BOOLEAN] :
          /\ \A id \in Ids : app[id] \in RandomLess(hp.amtHasApp)
          /\ listpop = experiment(app)
    /\ pc = "human"
    /\ lastcall = "init"
    /\ Start

AgentUnchanged ==
    UNCHANGED << hp, DEFER_SWAB_DAYS, DAY0_INFECTED, i, pc, infectctr, meetctr,
                 skipContagi, ninfec, ndead, nrecovered, nhealthy, ntotal >>

CallStep ==
    /\ pc = "human"
    /\ day < DAYS
    /\ LET ends == reachesIncubend(listpop[0])
       IN  \E die \in (IF ends THEN RandomLess(hp.Pd) ELSE {FALSE}) :
           \E swabok \in (IF ends /\ listpop[0].hasApp
                          THEN RandomLess(hp.swabAvailabilityProbability)
                          ELSE {TRUE}) :
             LET s == step(listpop[0], die, swabok)
             IN  /\ listpop' = [listpop EXCEPT ![0] = s.h]
                 /\ retval' = s.ret
                 /\ nincubend' = [nincubend EXCEPT ![0] = IF s.ended THEN @ + 1 ELSE @]
                 /\ ninfect' = [ninfect EXCEPT ![0] =
                                   IF HasFlag(s.ret, DO_INFECT) THEN @ + 1 ELSE @]
    /\ day' = day + 1
    /\ lastcall' = "step"
    /\ OK' = OK
    /\ AgentUnchanged

CallInfect ==
    /\ pc = "human"
    /\ LET r == infect(listpop[0])
       IN  /\ listpop' = [listpop EXCEPT ![0] = r.h]
           /\ OK' = r.ret
    /\ lastcall' = "infect"
    /\ UNCHANGED << day, retval, nincubend, ninfect >>
    /\ AgentUnchanged

CallAppAlarm ==
    /\ pc = "human"
    /\ \E comply \in (IF listpop[0].hasApp
                      THEN RandomGreater(EFFICIENCY_REDUCTION) ELSE {TRUE}) :
          listpop' = [listpop EXCEPT ![0] = appAlarm(@, comply)]
    /\ lastcall' = "appAlarm"
    /\ UNCHANGED << day, retval, OK, nincubend, ninfect >>
    /\ AgentUnchanged

AgentNext == CallStep \/ CallInfect \/ CallAppAlarm

AgentSpec == AgentInit /\ [][AgentNext]_vars

\* ---- the claims ----------------------------------------------------------
St(a) == listpop[a].st

\* the agent the last iteration of run() processed
Last == IF pc = "agent" /\ i > 0 THEN i - 1 ELSE POP - 1

DayDone(d) == d < day \/ (d = day /\ pc \in {"endday", "return", "done"})

Healthy == {a \in Ids : St(a) = healthy}

\* C1: on every simulated day the four daily counters sum to the population
\* size; while a day is being processed they sum to the number of agents
\* processed so far.
C1_Conservation ==
    \A d \in DayIds :
        /\ DayDone(d) => nhealthy[d] + ninfec[d] + nrecovered[d] + ndead[d] = POP
        /\ (d = day /\ pc = "agent") =>
               nhealthy[d] + ninfec[d] + nrecovered[d] + ndead[d] = i

\* a day is over in which an agent was counted Healthy and infected later in
\* the same pass, and an alarm was resolved
C1_Witness ==
    /\ pc = "endday"
    /\ nhealthy[day] > Cardinality(Healthy)
    /\ ninfec[day] > 0
    /\ \E a \in Ids : listpop[a].safequarantinectr > 0

\* C2: Recovered and Dead are absorbing: no transition changes the status of
\* an agent that is Recovered or Dead.
C2_Absorbing ==
    [][\A a \in Ids : St(a) \in {recovered, dead} => listpop'[a].st = St(a)]_vars

\* C3: willdie is sampled at most once per agent: no agent passes through
\* incubend() a second time.
C3_SampledOnce == \A a \in Ids : nincubend[a] <= 1

\* C4: infect() on an agent that is not Healthy returns 0 and leaves every
\* field of the agent unchanged.
C4_InfectNonHealthy ==
    [][(lastcall' = "infect" /\ St(0) # healthy) =>
          (listpop'[0] = listpop[0] /\ OK' = 0)]_vars

\* infect() has been refused on a Dead agent that sits in quarantine
C4_Witness ==
    /\ lastcall = "infect"
    /\ OK = 0
    /\ St(0) = dead
    /\ listpop[0].safequarantinectr > 0

\* C5: with Pd = 0 no agent is ever Dead (or marked to die) and the daily dead
\* count is 0 on every day.
C5_NoDeath ==
    hp.Pd = 0 =>
        /\ \A a \in Ids : St(a) # dead /\ ~listpop[a].willdie
        /\ \A d \in DayIds : ndead[d] = 0

\* the run is over with Pd = 0, and an agent went through its illness
C5_Witness ==
    /\ hp.Pd = 0
    /\ pc = "done"
    /\ \E a \in Ids : St(a) = recovered
    /\ \E d \in DayIds : nrecovered[d] > 0

\* C6: an agent without the app is never quarantined.
C6_NoAppNoQuarantine ==
    \A a \in Ids : ~listpop[a].hasApp => listpop[a].safequarantinectr = 0

InList(a, b) ==
    \E k \in 1 .. Len(listpop[a].meetingList) : listpop[a].meetingList[k] = b

\* the agent just processed raised ALARM; among its contacts one has the app
\* and went into quarantine, another has no app
C6_Witness ==
    /\ pc # "human"
    /\ HasFlag(retval, DO_ALARM)
    /\ \E a, b \in Ids :
          /\ InList(Last, a) /\ ~listpop[a].hasApp
          /\ InList(Last, b) /\ listpop[b].hasApp
          /\ listpop[b].safequarantinectr = hp.Tq

\* C7: with Pd = 1.0 an agent that is IllQuarantined stays so until it is
\* Dead, and no agent is ever Recovered.
C7_IllEndsInDeath ==
    [][hp.Pd = 100 =>
          \A a \in Ids :
              /\ St(a) = illquarant => listpop'[a].st \in {illquarant, dead}
              /\ listpop'[a].st # recovered]_vars

\* C8: with full adoption, full swab availability and DEFER_SWAB_DAYS = 0, a
\* step() that takes an agent through incubend() returns ALARM and arms no
\* countdown.
C8_ImmediateAlarm ==
    [][(/\ pc = "agent"
        /\ hp.amtHasApp = 100
        /\ hp.swabAvailabilityProbability = 100
        /\ DEFER_SWAB_DAYS = 0
        /\ nincubend'[i] # nincubend[i]) =>
          (/\ HasFlag(retval', DO_ALARM)
           /\ listpop'[i].defer_alarm = listpop[i].defer_alarm - 1
           /\ listpop'[i].defer_alarm < 0)]_vars

\* the agent just processed became ill, returned ALARM, and a contact of it
\* went into quarantine
C8_Witness ==
    /\ pc # "human"
    /\ hp.amtHasApp = 100 /\ hp.swabAvailabilityProbability = 100
    /\ DEFER_SWAB_DAYS = 0
    /\ St(Last) = illquarant
    /\ listpop[Last].icounter = (IF listpop[Last].willdie THEN hp.Td ELSE hp.Tr) - 1
    /\ HasFlag(retval, DO_ALARM)
    /\ \E b \in Ids : InList(Last, b) /\ listpop[b].safequarantinectr = hp.Tq

\* the number of step() calls agent 0 has had in run()
Steps0 == IF pc = "agent" /\ i = 0 THEN day ELSE day + 1

\* C9: with one seeded agent and R0 = 0 the seeded agent never raises INFECT,
\* is Incubating up to its Ti-th step and goes through incubend() in that
\* step, and every other agent stays Healthy.
C9_NoTransmission ==
    (pc # "human" /\ hp.R0 = 0 /\ DAY0_INFECTED = 1) =>
        /\ ~HasFlag(retval, DO_INFECT)
        /\ infectctr = 0
        /\ \A a \in Ids \ {0} : St(a) = healthy /\ nincubend[a] = 0
        /\ Steps0 < hp.Ti => (St(0) = incub /\ nincubend[0] = 0)
        /\ Steps0 >= hp.Ti => (St(0) \in {illquarant, recovered, dead}
                                /\ nincubend[0] = 1)

\* Ti = 7: the seeded agent has just taken its 7th step and is ill
C9_Witness ==
    /\ pc = "agent"
    /\ hp.R0 = 0 /\ hp.Ti = 7 /\ DAY0_INFECTED = 1
    /\ day = 6 /\ i = 1
    /\ St(0) = illquarant

\* C10: the degenerate-case guard latches.  A day that ended with the healthy
\* count below 30% of the population leaves skipContagi set; once it is set it
\* stays set, no infect() and no addMet() is called, no agent is infected, and
\* the agent processed is stepped and nothing else.
C10_GuardLatches ==
    /\ [](\A d \in DayIds :
            (DayDone(d) /\ pc # "endday" /\ 10 * nhealthy[d] < 3 * POP)
                => skipContagi = 1)
    /\ [][skipContagi = 1 =>
            /\ skipContagi' = 1
            /\ infectctr' = 0 /\ meetctr' = 0
            /\ \A a \in Ids :
                  /\ listpop'[a].meetingList = listpop[a].meetingList
                  /\ St(a) = healthy => listpop'[a].st = healthy
            /\ pc = "agent" =>
                  \E die, swabok \in BOOLEAN :
                      listpop'[i] = step(listpop[i], die, swabok).h]_vars

\* the guard is still set at the end of a later day whose healthy count is
\* back above the threshold
C10_Witness ==
    /\ pc = "agent"
    /\ skipContagi = 1
    /\ \E d \in DayIds : \E e \in DayIds :
          /\ d < e /\ e < day
          /\ 10 * nhealthy[d] < 3 * POP
          /\ 10 * nhealthy[e] >= 3 * POP

\* ---- run() to its end ----------------------------------------------------
\* the position of run() in its loop nest: iterations begun, then the end of
\* the day, the return and the end
Pos ==
    day * (POP + 1) + (IF pc = "agent" THEN i ELSE POP)
        + (IF pc = "return" THEN 1 ELSE IF pc = "done" THEN 2 ELSE 0)

\* contacts that the iteration being taken records for agent i
Added == Len(listpop'[i].meetingList) - Len(listpop[i].meetingList)

\* C11, as the claim states it: the safety part, with the contact loop held
\* to 0.5*POP draws.  The loop draws while its count is below 0.5*int(POP),
\* so for an odd POP it makes (POP+1)/2 draws, half a draw more.
C11_HalfPopDraws ==
    /\ infectctr <= POP
    /\ 2 * meetctr <= POP
    /\ pc = "done" => day = DAYS - 1

\* C11 (amended): run() ends after exactly DAYS days, every one of the DAYS
\* entries of the daily sequences written, and every step of run() advances
\* its position in the loop nest, so that no run is longer than
\* DAYS * (POP + 1) + 2 steps; an iteration makes at most POP
\* infect() draws and at most 0.5*POP contact draws rounded up to a whole
\* draw; an infection loop left without success has changed no agent, a
\* contact loop left short of meetingsPerDay has only appended the contacts it
\* found, and the run goes on to the next agent or the end of the day.
C11_RunCompletes ==
    /\ [](/\ Pos <= DAYS * (POP + 1) + 1
          /\ infectctr <= POP
          /\ 2 * meetctr <= POP + 1
          /\ DOMAIN ninfec = DayIds /\ DOMAIN ndead = DayIds
          /\ DOMAIN nrecovered = DayIds
          /\ pc = "done" =>
                day = DAYS - 1 /\ \A d \in DayIds : ntotal[d] = POP)
    /\ [][Pos' > Pos]_vars
    /\ [][pc = "agent" =>
            /\ pc' \in {"agent", "endday"}
            /\ day' = day
            /\ (HasFlag(retval', DO_INFECT) /\ OK' = 0 /\ skipContagi = 0) =>
                  /\ infectctr' = POP
                  /\ \A a \in Ids \ {i} :
                        /\ listpop'[a].st = listpop[a].st
                        /\ listpop'[a].icounter = listpop[a].icounter
                        /\ listpop'[a].meetingList = listpop[a].meetingList
            /\ (listpop'[i].st = incub /\ Added < hp.meeting /\ skipContagi = 0) =>
                  /\ meetctr' = MeetDraws
                  /\ Added >= 0
                  /\ SubSeq(listpop'[i].meetingList, 1, Len(listpop[i].meetingList))
                        = listpop[i].meetingList]_vars

\* an iteration has exhausted both loops: POP infect() calls all refused, and
\* every contact draw made without finding meetingsPerDay contacts
C11_Witness ==
    /\ pc \in {"agent", "endday"}
    /\ lastcall = "run"
    /\ HasFlag(retval, DO_INFECT)
    /\ OK = 0
    /\ infectctr = POP
    /\ meetctr = MeetDraws
    /\ skipContagi = 0
    /\ day > 0

\* C12: the daily count of Dead or Recovered agents, ndead[d] + nrecovered[d],
\* never falls from one completed day to the next.
C12_RemovedMonotone ==
    \A d \in DayIds :
        (d + 1 \in DayIds /\ DayDone(d + 1)) =>
            ndead[d] + nrecovered[d] <= ndead[d + 1] + nrecovered[d + 1]

\* C13: infect() called on a Healthy agent returns 1 and leaves the agent
\* Incubating with icounter = Ti and riskcounter = 0, whatever the Healthy
\* agent went through before.
C13_InfectResetsRisk ==
    [][(lastcall' = "infect" /\ listpop[0].st = healthy) =>
            /\ OK' = 1
            /\ listpop'[0].st = incub
            /\ listpop'[0].icounter = hp.Ti
            /\ listpop'[0].riskcounter = 0]_vars

\* the step() being taken subtracts 1 from the risk accumulator: it has
\* crossed 1 (riskcounter is in units of 1/Ti, and R0 < Ti)
Crossed ==
    listpop'[0].riskcounter = listpop[0].riskcounter + hp.R0 - hp.Ti

\* C14: step() returns the OR of the flags raised in it: a step in which the
\* risk accumulator crosses 1 returns a value with INFECT set, also when
\* ALARM is raised in the same step.
C14_FlagsAreOred ==
    [][(lastcall' = "step" /\ Crossed) => HasFlag(retval', DO_INFECT)]_vars

\* the contacts that the iteration being taken records for agent i
NewContacts ==
    SubSeq(listpop'[i].meetingList, Len(listpop[i].meetingList) + 1,
           Len(listpop'[i].meetingList))

\* C15: in one iteration the engine records at most meetingsPerDay contacts
\* for agent i, the ids it records are pairwise distinct, and each of them is
\* meetable (Healthy, quarantine counter 0) when it is recorded.  Nothing
\* changes a contact between its recording and the end of the iteration.
C15_DistinctMeetableContacts ==
    [][pc = "agent" =>
            /\ Len(NewContacts) <= hp.meeting
            /\ \A k, l \in 1 .. Len(NewContacts) :
                  k # l => NewContacts[k] # NewContacts[l]
            /\ \A k \in 1 .. Len(NewContacts) :
                  isMeetable(listpop'[NewContacts[k]])]_vars

\* C16: addMet() is called on agent i only while agent i is Incubating with
\* its quarantine counter at 0: an iteration that appends to the meetingList
\* of agent i leaves it Incubating and unquarantined.
C16_ContactsOnlyUnquarantined ==
    [][(pc = "agent" /\ Added > 0) =>
            /\ listpop'[i].st = incub
            /\ listpop'[i].safequarantinectr = 0]_vars

\* the step() being taken runs the illness branch: incubend() is reached in
\* it, or the agent was IllQuarantined and is not released by a quarantine end
IllBranchRuns ==
    \/ nincubend'[0] > nincubend[0]
    \/ listpop[0].st = illquarant /\ listpop[0].safequarantinectr # 1

\* steps between the step that made the agent IllQuarantined and the step
\* being taken: the illness counter starts at Td or Tr and loses 1 per step,
\* the step of incubend() included
IllAge ==
    IF nincubend'[0] > nincubend[0]
    THEN 0
    ELSE (IF listpop[0].willdie THEN hp.Td ELSE hp.Tr) - 1 - listpop'[0].icounter

\* C17: with DEFER_SWAB_DAYS = d > 0, an agent that has the app and whose test
\* succeeds returns ALARM from the step() taken exactly d steps after the
\* step in which it became IllQuarantined, and from no other step of that
\* illness.
C17_AlarmAfterDeferDays ==
    [][(/\ lastcall' = "step"
        /\ DEFER_SWAB_DAYS > 0
        /\ listpop[0].hasApp
        /\ hp.swabAvailabilityProbability = 100
        /\ IllBranchRuns) =>
            (HasFlag(retval', DO_ALARM) <=> IllAge = DEFER_SWAB_DAYS)]_vars

\* C18: an agent that is never quarantined during its incubation returns
\* INFECT from exactly R0 of the Ti step() calls of that incubation.  Stated
\* for a first incubation, whose risk accumulator starts at 0: the step that
\* ends it is begun with the quarantine counter at 0 (a quarantine lasts
\* Tq > Ti steps, so the agent was not quarantined in an earlier step of the
\* incubation either), and ninfect then counts the INFECT of this incubation.
C18_InfectsR0Times ==
    [][(/\ lastcall' = "step"
        /\ nincubend[0] = 0 /\ nincubend'[0] = 1
        /\ listpop[0].safequarantinectr = 0) =>
            ninfect'[0] = hp.R0]_vars

C20_QuarantinedNotContagious ==
    /\ [](\A a \in Ids :
            listpop[a].safequarantinectr > 0 => ~isMeetable(listpop[a]))
    /\ [][pc = "agent" =>
            /\ listpop[i].safequarantinectr > 0 =>
                  /\ listpop'[i].riskcounter = listpop[i].riskcounter
                  /\ ~HasFlag(retval', DO_INFECT)
            /\ \A k \in 1 .. Len(NewContacts) :
                  /\ listpop[NewContacts[k]].safequarantinectr = 0
                  /\ listpop'[NewContacts[k]].safequarantinectr = 0]_vars

\* the agent just processed began its step() quarantined while Incubating,
\* with risk accumulated before the quarantine, and another agent is Healthy
\* and quarantined
C20_Witness ==
    /\ lastcall = "run"
    /\ pc \in {"agent", "endday"}
    /\ (pc = "agent" => i > 0)
    /\ St(Last) = incub
    /\ listpop[Last].safequarantinectr > 0
    /\ listpop[Last].riskcounter > 0
    /\ ~HasFlag(retval, DO_INFECT)
    /\ \E b \in Ids : St(b) = healthy /\ listpop[b].safequarantinectr > 0

====
